---- MODULE Spec2Model ----
(***************************************************************************)
(* Model of the Excel header detection and structuring engine of           *)
(* app/analysis/excel_parser.py (intelligent_read_excel and its helpers).  *)
(*                                                                         *)
(* Text is a sequence of characters.  The module is plain ASCII, so every  *)
(* CJK character of the source is written as one symbol named by its       *)
(* pinyin: xu hao = U+5E8F U+53F7, xiang mu = U+9879 U+76EE, and so on     *)
(* (see keywords).  Substring tests, strip and replace work on these       *)
(* character sequences exactly as the Python code works on str.            *)
(***************************************************************************)
EXTENDS Integers, Sequences, FiniteSets, TLC

VARIABLES
    sheet_name,         \* argument sheet_name of intelligent_read_excel
    workbook,           \* the sheets of the file at file_path: name and rows
    max_rows_to_scan,   \* argument max_rows_to_scan of the header finders
    pc,                 \* position inside intelligent_read_excel
    df_raw,             \* what pd.read_excel returned (NoFrame: nothing)
    model_loaded,       \* HeaderFinder.model is not None
    calls,              \* the header strategies called so far and their results
    scores,             \* the list scores of find_header_row_rule_based
    header_row_index,   \* local header_row_index
    df_initial,         \* local df_initial: columns, rows and index labels
    metadata,           \* the metadata dict
    table,              \* the first element of the returned pair
    controller,         \* the AppController object: its five attributes
    import_state,       \* data of the dcc.Store IMPORT_STATE
    output_container,   \* children of OUTPUT_CONTAINER: the components shown
    triggered,          \* callbacks whose Input changed and that have not run yet
    files,              \* the files on disk below data/: path -> content
    processed,          \* data/processed and index.json: the frames saved
    ran,                \* the operation that ran last and what it returned
    writers             \* for each Output, the callbacks that have written it

\* the state of the application around the parser
app_vars == <<controller, import_state, output_container, triggered, files,
              processed, ran, writers>>

vars == <<sheet_name, workbook, max_rows_to_scan, pc, df_raw, model_loaded,
          calls, scores, header_row_index, df_initial, metadata, table,
          app_vars>>

-----------------------------------------------------------------------------
(* Python values *)

\* Python None (sheet_name, the returned table)
None == "None"

\* float('nan'): an empty worksheet cell as read by pandas
NaN == [t |-> "nan", s |-> <<>>, n |-> 0]

\* a str cell
Str(chars) == [t |-> "str", s |-> chars, n |-> 0]

\* an int cell (worksheet numbers; columns holding header text are object dtype)
Num(k) == [t |-> "num", s |-> <<>>, n |-> k]

\* pd.notna(item)
notna(item) == item.t # "nan"

\* isinstance(item, str)
isinstance_str(item) == item.t = "str"

Digit(d) == <<"0", "1", "2", "3", "4", "5", "6", "7", "8", "9">>[d + 1]

RECURSIVE NumStr(_)
\* str(k) for an int k >= 0
NumStr(k) == IF k < 10 THEN <<Digit(k)>> ELSE NumStr(k \div 10) \o <<Digit(k % 10)>>

\* str(item)
PyStr(item) ==
    CASE item.t = "str" -> item.s
      [] item.t = "num" -> NumStr(item.n)
      [] OTHER -> <<"n", "a", "n">>

\* characters str.strip() removes
Whitespace == {" ", "NL", "TAB"}

RECURSIVE LStrip(_)
LStrip(s) == IF s # <<>> /\ Head(s) \in Whitespace THEN LStrip(Tail(s)) ELSE s

RECURSIVE RStrip(_)
RStrip(s) ==
    IF s # <<>> /\ s[Len(s)] \in Whitespace THEN RStrip(SubSeq(s, 1, Len(s) - 1)) ELSE s

\* s.strip()
Strip(s) == RStrip(LStrip(s))

\* s.replace('\n', '')
ReplaceNL(s) == SelectSeq(s, LAMBDA c : c # "NL")

\* keyword in s_item
Contains(kw, s) ==
    \E i \in 1..(Len(s) - Len(kw) + 1) : \A k \in 1..Len(kw) : s[i + k - 1] = kw[k]

\* ' '.join(parts)
RECURSIVE Join(_)
Join(parts) ==
    IF parts = <<>> THEN <<>>
    ELSE IF Len(parts) = 1 THEN parts[1]
    ELSE parts[1] \o <<" ">> \o Join(Tail(parts))

-----------------------------------------------------------------------------
(* Rational numbers p/q, q > 0: the float scores of the row scorer.  Every  *)
(* score is a multiple of 1/2 divided by a small count, so float division  *)
(* and comparison agree with the exact ones.                               *)

Rat(p, q) == [p |-> p, q |-> q]
RatLt(a, b) == a.p * b.q < b.p * a.q
RatLe(a, b) == a.p * b.q <= b.p * a.q

RECURSIVE SumSeq(_)
SumSeq(s) == IF s = <<>> THEN 0 ELSE Head(s) + SumSeq(Tail(s))

-----------------------------------------------------------------------------
(* get_row_score *)

\* the dict keywords with its weights
keywords == <<
    [k |-> <<"xiang", "mu">>, w |-> 3],          \* U+9879 U+76EE
    [k |-> <<"ming", "cheng1">>, w |-> 3],       \* U+540D U+79F0
    [k |-> <<"dan", "jia">>, w |-> 3],           \* U+5355 U+4EF7
    [k |-> <<"he", "jia">>, w |-> 3],            \* U+5408 U+4EF7
    [k |-> <<"gong1", "cheng2", "liang">>, w |-> 3], \* U+5DE5 U+7A0B U+91CF
    [k |-> <<"dan", "wei">>, w |-> 2],           \* U+5355 U+4F4D
    [k |-> <<"xu", "hao">>, w |-> 2],            \* U+5E8F U+53F7
    [k |-> <<"gong2", "neng", "qu">>, w |-> 1],  \* U+529F U+80FD U+533A
    [k |-> <<"nei", "rong">>, w |-> 1],          \* U+5185 U+5BB9
    [k |-> <<"gui", "ze">>, w |-> 1],            \* U+89C4 U+5219
    [k |-> <<"fang", "shi">>, w |-> 1],          \* U+65B9 U+5F0F
    [k |-> <<"bei", "zhu">>, w |-> 1] >>         \* U+5907 U+6CE8

\* len(s_item) > 50
LongTextLen == 50

\* the sum of the weights of the keywords found in s_item
KeywordScore(s_item) ==
    SumSeq([i \in 1..Len(keywords) |->
               IF Contains(keywords[i].k, s_item) THEN keywords[i].w ELSE 0])

\* what one non-empty cell adds to score, in halves (0.5 = 1)
CellScore2(item) ==
    2 * KeywordScore(PyStr(item))
    + (IF isinstance_str(item) THEN 1 ELSE 0)
    - (IF Len(PyStr(item)) > LongTextLen THEN 20 ELSE 0)

\* num_non_empty after the loop
NumNonEmpty(row) == Len(SelectSeq(row, notna))

\* score after the loop, in halves
RowScore2(row) ==
    SumSeq([i \in 1..Len(row) |-> IF notna(row[i]) THEN CellScore2(row[i]) ELSE 0])

\* get_row_score without its single-cell rule (lines 143-144 dropped)
get_row_score_NoSingleCellRule(row) ==
    IF NumNonEmpty(row) > 0 THEN Rat(RowScore2(row), 2 * NumNonEmpty(row))
    ELSE Rat(0, 1)

get_row_score(row) ==
    IF NumNonEmpty(row) <= 1 THEN Rat(0, 1)
    ELSE Rat(RowScore2(row), 2 * NumNonEmpty(row))

-----------------------------------------------------------------------------
(* find_header_row_rule_based *)

Min(a, b) == IF a < b THEN a ELSE b

\* the default of max_rows_to_scan
DefaultMaxRowsToScan == 20

\* a DataFrame read from one worksheet
Frame(rows) == [kind |-> "frame", rows |-> rows]

\* the dict of DataFrames pd.read_excel returns for sheet_name=None
SheetDict(sheets) == [kind |-> "dict", rows |-> sheets]

\* a returned value, or a raised exception
Ret(v) == [raised |-> FALSE, value |-> v]
Exc == [raised |-> TRUE, value |-> -1]

RECURSIVE ScoresOfFirst(_, _)
\* [get_row_score(df.iloc[i]) for i in range(n)]
ScoresOfFirst(rows, n) ==
    IF n <= 0 THEN <<>>
    ELSE Append(ScoresOfFirst(rows, n - 1), get_row_score(rows[n]))

\* the list scores: one score per row of the scan window (0-based row i is
\* scores[i + 1])
ScoreList(rows, maxscan) == ScoresOfFirst(rows, Min(Len(rows), maxscan))

\* np.argmax(scores): the first position holding the maximum, 0-based
argmax(sc) ==
    (CHOOSE i \in 1..Len(sc) :
        /\ \A j \in 1..Len(sc) : RatLe(sc[j], sc[i])
        /\ \A j \in 1..(i - 1) : RatLt(sc[j], sc[i])) - 1

\* the threshold 2.0 of line 160
RuleThreshold == Rat(2, 1)

\* find_header_row_rule_based that scores every row of the sheet
find_header_row_rule_based_ScanAll(df, maxscan) ==
    IF Len(df.rows) <= 0 THEN Ret(-1)
    ELSE IF df.kind = "dict" THEN Exc
    ELSE LET sc == ScoreList(df.rows, Len(df.rows))
             best_row_index == argmax(sc)
         IN  IF RatLt(sc[best_row_index + 1], RuleThreshold) THEN Ret(-1)
             ELSE Ret(best_row_index)

\* On a dict len(df) is the number of sheets and df.iloc raises AttributeError.
find_header_row_rule_based(df, maxscan) ==
    IF Min(Len(df.rows), maxscan) <= 0 THEN Ret(-1)
    ELSE IF df.kind = "dict" THEN Exc
    ELSE LET sc == ScoreList(df.rows, maxscan)
             best_row_index == argmax(sc)
         IN  IF RatLt(sc[best_row_index + 1], RuleThreshold) THEN Ret(-1)
             ELSE Ret(best_row_index)

-----------------------------------------------------------------------------
(* HeaderFinder *)

\* len(self.GOLDEN_HEADERS)
NumGoldenHeaders == 18

\* confidence_threshold = 0.3
SemanticThreshold == Rat(3, 10)

\* row_texts of line 74
row_texts(row) ==
    LET cells == SelectSeq(row, notna)
        texts == [i \in 1..Len(cells) |-> Strip(PyStr(cells[i]))]
    IN  SelectSeq(texts, LAMBDA t : t # <<>>)

RECURSIVE CandidateScores(_, _, _)
\* candidate_scores after the loop over the first n rows: sims[i] is
\* np.mean(best_matches_scores) of row i - 1 in tenths (at most 10, a mean
\* of cosines of normalized embeddings), and row_score of line 91 is
\* sims[i] / 10 * len(row_texts) / len(GOLDEN_HEADERS)
CandidateScores(rows, sims, n) ==
    IF n <= 0 THEN <<>>
    ELSE LET texts == Len(row_texts(rows[n]))
             before == CandidateScores(rows, sims, n - 1)
         IN  IF texts < 3 THEN before
             ELSE Append(before,
                         [row_index |-> n - 1,
                          score |-> Rat(sims[n] * texts, 10 * NumGoldenHeaders)])

\* lines 70-108: the scan made once the model is there
SemanticScan(df, maxscan, sims) ==
    IF df.kind = "dict" THEN Exc   \* a dict has no head()
    ELSE LET cand == CandidateScores(df.rows, sims, Min(Len(df.rows), maxscan))
             \* max(candidate_scores, key=...): the first maximum
             best == CHOOSE k \in 1..Len(cand) :
                        /\ \A j \in 1..Len(cand) : RatLe(cand[j].score, cand[k].score)
                        /\ \A j \in 1..(k - 1) : RatLt(cand[j].score, cand[k].score)
         IN  IF cand = <<>> THEN Ret(-1)
             ELSE IF RatLt(cand[best].score, SemanticThreshold) THEN Ret(-1)
             ELSE Ret(cand[best].row_index)

\* find_header_row_semantic without the guard of lines 67-68: a row with
\* three texts makes it call encode on None, which raises
find_header_row_semantic_NoGuard(loaded, df, maxscan, sims) ==
    IF loaded THEN SemanticScan(df, maxscan, sims)
    ELSE IF df.kind = "dict" THEN Exc
    ELSE IF \E i \in 1..Min(Len(df.rows), maxscan) : Len(row_texts(df.rows[i])) >= 3
    THEN Exc
    ELSE Ret(-1)

find_header_row_semantic(loaded, df, maxscan, sims) ==
    IF ~loaded THEN Ret(-1) ELSE SemanticScan(df, maxscan, sims)

-----------------------------------------------------------------------------
(* intelligent_read_excel, phase 2: the header block and the column names *)

\* header_block = df_raw.iloc[h:h + 3]
HeaderBlockRows == 3

header_block(rows, h) == SubSeq(rows, h + 1, Min(h + HeaderBlockRows, Len(rows)))

\* pd.notna(col_name) and str(col_name).strip()
ValidTopCell(c) == notna(c) /\ Strip(PyStr(c)) # <<>>

\* str(x).strip().replace('\n', '')
CleanLabel(c) == ReplaceNL(Strip(PyStr(c)))

\* last_valid_col reset at every column: the label of a merged cell is not
\* carried to the columns it spans
last_valid_col_NoCarry(top, i) ==
    IF i > 0 /\ ValidTopCell(top[i]) THEN CleanLabel(top[i]) ELSE <<>>

RECURSIVE last_valid_col(_, _)
\* last_valid_col after the loop has seen column i (1-based) of the top row
last_valid_col(top, i) ==
    IF i = 0 THEN <<>>
    ELSE IF ValidTopCell(top[i]) THEN CleanLabel(top[i])
    ELSE last_valid_col(top, i - 1)

\* sub_col_names of column i
sub_col_names(hb, i) ==
    LET below == SelectSeq([j \in 1..(Len(hb) - 1) |-> hb[j + 1][i]], notna)
    IN  [k \in 1..Len(below) |-> CleanLabel(below[k])]

\* new_columns after the loop of lines 268-277
NewColumns(hb) ==
    [i \in 1..Len(hb[1]) |->
        Strip(Join(<<last_valid_col(hb[1], i)>> \o sub_col_names(hb, i)))]

\* final_columns: the k-th repeat of a name gets the suffix _k
FinalColumns(cols) ==
    [i \in 1..Len(cols) |->
        LET before == Cardinality({j \in 1..(i - 1) : cols[j] = cols[i]})
        IN  IF before = 0 THEN cols[i] ELSE cols[i] \o <<"_">> \o NumStr(before)]

\* the index labels a, a + 1, ..., b - 1 (range(a, b))
RangeIndex(a, b) == [k \in 1..(b - a) |-> a + k - 1]

\* df_raw.iloc[h + len(header_block):] under the names final_columns; the
\* rows keep the index labels they had in df_raw
DfInitial(rows, h) ==
    LET hb == header_block(rows, h)
    IN  [columns |-> FinalColumns(NewColumns(hb)),
         rows |-> SubSeq(rows, h + Len(hb) + 1, Len(rows)),
         index |-> RangeIndex(h + Len(hb), Len(rows))]

-----------------------------------------------------------------------------
(* _clean_and_structure_data *)

IsDigits(s) == s # <<>> /\ \A i \in 1..Len(s) : s[i] \in {Digit(d) : d \in 0..9}

RECURSIVE DigitsValue(_)
DigitsValue(s) ==
    IF s = <<>> THEN 0
    ELSE 10 * DigitsValue(SubSeq(s, 1, Len(s) - 1))
         + (CHOOSE d \in 0..9 : Digit(d) = s[Len(s)])

\* whether pd.to_numeric can convert the cell (text made of digits parses)
Convertible(c) == c.t # "str" \/ IsDigits(c.s)

\* pd.to_numeric on one cell that leaves text it cannot convert as it is
to_numeric_coerce_KeepsText(c) ==
    IF c.t = "str" THEN (IF IsDigits(c.s) THEN Num(DigitsValue(c.s)) ELSE c)
    ELSE c

\* pd.to_numeric(..., errors='coerce') on one cell
to_numeric_coerce(c) ==
    IF c.t = "str" THEN (IF IsDigits(c.s) THEN Num(DigitsValue(c.s)) ELSE NaN)
    ELSE c

Column(rows, i) == [r \in 1..Len(rows) |-> rows[r][i]]

\* pd.to_numeric(df[col], errors='ignore'): the column converted when every
\* cell converts, else the column as it was
to_numeric_ignore(col) ==
    IF \A r \in 1..Len(col) : Convertible(col[r])
    THEN [r \in 1..Len(col) |-> to_numeric_coerce(col[r])]
    ELSE col

SerialKey == <<"xu", "hao">>                            \* U+5E8F U+53F7
ZoneKey == <<"gong2", "neng", "qu">>                    \* U+529F U+80FD U+533A
ProjectNameKey == <<"xiang", "mu", "ming", "cheng1">>   \* U+9879 U+76EE U+540D U+79F0
L2Name == ZoneKey \o <<"_", "L", "2">>
L1Name == ZoneKey \o <<"_", "L", "1">>

\* next((col for col in df.columns if key in col), None): 1-based, 0 for None
FirstColumn(cols, key) ==
    IF \E i \in 1..Len(cols) : Contains(key, cols[i])
    THEN CHOOSE i \in 1..Len(cols) :
            /\ Contains(key, cols[i])
            /\ \A j \in 1..(i - 1) : ~Contains(key, cols[j])
    ELSE 0

HasDuplicates(cols) == \E i, j \in 1..Len(cols) : i < j /\ cols[i] = cols[j]

RECURSIVE ffill(_)
\* fillna(method='ffill'): each NaN takes the last value above it, if any
ffill(col) ==
    IF col = <<>> THEN <<>>
    ELSE LET init == ffill(SubSeq(col, 1, Len(col) - 1))
             last == col[Len(col)]
         IN  IF notna(last) \/ init = <<>> THEN Append(init, last)
             ELSE Append(init, init[Len(init)])

\* step 1: df.dropna(how='all')
DropAllNaRows(rows) ==
    SelectSeq(rows, LAMBDA row : \E i \in 1..Len(row) : notna(row[i]))

\* the index labels of the rows dropna keeps
DropAllNaIndex(rows, index) ==
    LET kept == SelectSeq([r \in 1..Len(rows) |-> r],
                          LAMBDA r : \E i \in 1..Len(rows[r]) : notna(rows[r][i]))
    IN  [k \in 1..Len(kept) |-> index[kept[k]]]

\* the result of _clean_and_structure_data: raised, or (df, structured_metadata)
CleanResult(df, meta) == [raised |-> FALSE, df |-> df, meta |-> meta]
CleanRaised ==
    [raised |-> TRUE, df |-> [columns |-> <<>>, rows |-> <<>>, index |-> <<>>], meta |-> <<>>]

\* steps 2 to 6 on a frame that is not empty
StructureRows(cols, rows) ==
    LET serial == FirstColumn(cols, SerialKey)
        is_data_row == [r \in 1..Len(rows) |->
                          IF serial = 0 THEN TRUE
                          ELSE notna(to_numeric_coerce(rows[r][serial]))]
        zone == FirstColumn(cols, ZoneKey)
        cols2 == [i \in 1..Len(cols) |-> IF i = zone THEN L2Name ELSE cols[i]]
        project == FirstColumn(cols2, ProjectNameKey)
        l1 == ffill([r \in 1..Len(rows) |->
                        IF ~is_data_row[r] THEN rows[r][project] ELSE NaN])
        \* df[L1Name] = ... adds the column at the end, or overwrites the
        \* column that already has this label
        old_l1 == IF \E i \in 1..Len(cols2) : cols2[i] = L1Name
                  THEN CHOOSE i \in 1..Len(cols2) : cols2[i] = L1Name ELSE 0
        cols3 == IF project = 0 \/ old_l1 # 0 THEN cols2 ELSE Append(cols2, L1Name)
        rows3 == [r \in 1..Len(rows) |->
                    IF project = 0 THEN rows[r]
                    ELSE IF old_l1 # 0 THEN [rows[r] EXCEPT ![old_l1] = l1[r]]
                    ELSE Append(rows[r], l1[r])]
        converted == [i \in 1..Len(cols3) |->
                        IF i = serial
                        THEN [r \in 1..Len(rows3) |-> to_numeric_coerce(rows3[r][i])]
                        ELSE to_numeric_ignore(Column(rows3, i))]
        meta == (IF zone = 0 THEN <<>> ELSE "l2_column" :> L2Name)
                @@ (IF project = 0 THEN <<>> ELSE "l1_column" :> L1Name)
    IN  \* a column label held twice makes df[col] a DataFrame, which
        \* pd.to_numeric and the L1 assignment reject; a serial column renamed
        \* to L2 is no longer found under its old label (KeyError)
        IF HasDuplicates(cols3) \/ (serial # 0 /\ serial = zone) THEN CleanRaised
        ELSE CleanResult(
                [columns |-> cols3,
                 rows |-> [r \in 1..Len(rows3) |->
                             [i \in 1..Len(cols3) |-> converted[i][r]]],
                 \* step 6: reset_index(drop=True)
                 index |-> RangeIndex(0, Len(rows3))],
                meta)

\* _clean_and_structure_data that drops the summary rows (the rows whose
\* serial number is not numeric) once L1 is filled
clean_and_structure_data_DropSummary(df) ==
    LET rows == DropAllNaRows(df.rows)
        index == DropAllNaIndex(df.rows, df.index)
        serial == FirstColumn(df.columns, SerialKey)
        r == StructureRows(df.columns, rows)
        data == SelectSeq(r.df.rows, LAMBDA row : serial = 0 \/ notna(row[serial]))
    IN  IF rows = <<>> \/ df.columns = <<>>
        THEN CleanResult([columns |-> df.columns, rows |-> rows, index |-> index], <<>>)
        ELSE IF r.raised THEN r
        ELSE CleanResult([columns |-> r.df.columns, rows |-> data,
                          index |-> RangeIndex(0, Len(data))], r.meta)

\* _clean_and_structure_data without its step 6: the rows keep the index
\* labels of df_raw
clean_and_structure_data_NoReset(df) ==
    LET rows == DropAllNaRows(df.rows)
        index == DropAllNaIndex(df.rows, df.index)
        r == StructureRows(df.columns, rows)
    IN  IF rows = <<>> \/ df.columns = <<>>
        THEN CleanResult([columns |-> df.columns, rows |-> rows, index |-> index], <<>>)
        ELSE IF r.raised THEN r
        ELSE CleanResult([r.df EXCEPT !.index = index], r.meta)

clean_and_structure_data(df) ==
    LET rows == DropAllNaRows(df.rows)
        index == DropAllNaIndex(df.rows, df.index)
    IN  IF rows = <<>> \/ df.columns = <<>>      \* df.empty
        THEN CleanResult([columns |-> df.columns, rows |-> rows, index |-> index], <<>>)
        ELSE StructureRows(df.columns, rows)

-----------------------------------------------------------------------------
(* intelligent_read_excel *)

\* no DataFrame: the table of a failed parse (Python None)
NoTable == [present |-> FALSE, columns |-> <<>>, rows |-> <<>>, index |-> <<>>]
Table(df) ==
    [present |-> TRUE, columns |-> df.columns, rows |-> df.rows, index |-> df.index]

NoFrame == [kind |-> "unset", rows |-> <<>>]
EmptyDf == [columns |-> <<>>, rows |-> <<>>, index |-> <<>>]

\* the messages put under metadata["error"]
ErrRead == "read_excel failed: e"
ErrHeader == "cannot locate the header automatically"

SheetExists(name) == \E i \in 1..Len(workbook) : workbook[i].name = name
SheetRows(name) == (CHOOSE sh \in {workbook[i] : i \in 1..Len(workbook)} : sh.name = name).rows

\* ReadExcel that records the error and goes on to the header search
ReadExcel_ContinuesAfterFailure ==
    /\ pc = "start"
    /\ \E io_ok \in BOOLEAN :
        IF io_ok /\ (sheet_name = None \/ SheetExists(sheet_name))
        THEN /\ df_raw' = IF sheet_name = None
                          THEN SheetDict([i \in 1..Len(workbook) |-> workbook[i].rows])
                          ELSE Frame(SheetRows(sheet_name))
             /\ metadata' = ("source_sheet" :> sheet_name)
        ELSE /\ df_raw' = df_raw
             /\ metadata' = ("source_sheet" :> sheet_name) @@ ("error" :> ErrRead)
    /\ pc' = "header_finder"
    /\ table' = NoTable
    /\ UNCHANGED <<app_vars, sheet_name, workbook, max_rows_to_scan, model_loaded, calls,
                   scores, header_row_index, df_initial>>

\* lines 239-245: metadata is created and the worksheet is read; io_ok is
\* whether the file opens and parses as a workbook
ReadExcel ==
    /\ pc = "start"
    /\ \E io_ok \in BOOLEAN :
        IF io_ok /\ (sheet_name = None \/ SheetExists(sheet_name))
        THEN /\ df_raw' = IF sheet_name = None
                          THEN SheetDict([i \in 1..Len(workbook) |-> workbook[i].rows])
                          ELSE Frame(SheetRows(sheet_name))
             /\ metadata' = ("source_sheet" :> sheet_name)
             /\ pc' = "header_finder"
        ELSE /\ df_raw' = df_raw
             /\ metadata' = ("source_sheet" :> sheet_name) @@ ("error" :> ErrRead)
             /\ pc' = "returned"
    /\ table' = NoTable
    /\ UNCHANGED <<app_vars, sheet_name, workbook, max_rows_to_scan, model_loaded, calls,
                   scores, header_row_index, df_initial>>

\* line 248 and HeaderFinder.__init__: the model is loaded only when the
\* library is installed and loading does not fail; a failure is caught
ConstructHeaderFinder ==
    /\ pc = "header_finder"
    /\ \E env \in {"library_missing", "load_failed", "loaded"} :
        model_loaded' = (env = "loaded")
    /\ pc' = "semantic"
    /\ UNCHANGED <<app_vars, sheet_name, workbook, max_rows_to_scan, df_raw, calls, scores,
                   header_row_index, df_initial, metadata, table>>

\* one entry of calls: the strategy called and what it returned
Call(name, r) == [name |-> name, result |-> r.value, raised |-> r.raised]

\* The embedding model is outside the program.  The similarities it may
\* give the rows read: every row 0.5, every row 1.0, or one row 1.0 and
\* the others 0.5.
SimChoices ==
    IF model_loaded /\ df_raw.kind = "frame"
    THEN LET n == Min(Len(df_raw.rows), max_rows_to_scan)
         IN  {[i \in 1..n |-> 5], [i \in 1..n |-> 10]}
             \cup {[i \in 1..n |-> IF i = fav THEN 10 ELSE 5] : fav \in 1..n}
    ELSE {<<>>}

\* FindSemantic that falls back to the rules whatever the scorer returned
FindSemantic_AlwaysFallback ==
    /\ pc = "semantic"
    /\ \E sims \in SimChoices :
        LET r == find_header_row_semantic(model_loaded, df_raw, max_rows_to_scan, sims)
        IN  /\ header_row_index' = r.value
            /\ calls' = Append(calls, Call("semantic", r))
            /\ pc' = IF r.raised THEN "raised" ELSE "rule_based"
    /\ UNCHANGED <<app_vars, sheet_name, workbook, max_rows_to_scan, df_raw, model_loaded,
                   scores, df_initial, metadata, table>>

\* line 249 and the test of line 251
FindSemantic ==
    /\ pc = "semantic"
    /\ \E sims \in SimChoices :
        LET r == find_header_row_semantic(model_loaded, df_raw, max_rows_to_scan, sims)
        IN  /\ header_row_index' = r.value
            /\ calls' = Append(calls, Call("semantic", r))
            /\ pc' = IF r.raised THEN "raised"
                     ELSE IF r.value = -1 THEN "rule_based" ELSE "check_header"
    /\ UNCHANGED <<app_vars, sheet_name, workbook, max_rows_to_scan, df_raw, model_loaded,
                   scores, df_initial, metadata, table>>

\* lines 251-253: the fallback
FindRuleBased ==
    /\ pc = "rule_based"
    /\ LET r == find_header_row_rule_based(df_raw, max_rows_to_scan)
       IN  /\ header_row_index' = r.value
           /\ calls' = Append(calls, Call("rule_based", r))
           /\ pc' = IF r.raised THEN "raised" ELSE "check_header"
    /\ scores' = IF df_raw.kind = "frame"
                 THEN ScoreList(df_raw.rows, max_rows_to_scan) ELSE <<>>
    /\ UNCHANGED <<app_vars, sheet_name, workbook, max_rows_to_scan, df_raw, model_loaded,
                   df_initial, metadata, table>>

\* CheckHeader that returns None without setting metadata["error"]
CheckHeader_NoError ==
    /\ pc = "check_header"
    /\ IF header_row_index = -1
       THEN /\ metadata' = metadata
            /\ pc' = "returned"
       ELSE /\ metadata' = metadata @@ ("header_row" :> header_row_index)
            /\ pc' = "columns"
    /\ UNCHANGED <<app_vars, sheet_name, workbook, max_rows_to_scan, df_raw, model_loaded,
                   calls, scores, header_row_index, df_initial, table>>

\* lines 255-259
CheckHeader ==
    /\ pc = "check_header"
    /\ IF header_row_index = -1
       THEN /\ metadata' = metadata @@ ("error" :> ErrHeader)
            /\ pc' = "returned"
       ELSE /\ metadata' = metadata @@ ("header_row" :> header_row_index)
            /\ pc' = "columns"
    /\ UNCHANGED <<app_vars, sheet_name, workbook, max_rows_to_scan, df_raw, model_loaded,
                   calls, scores, header_row_index, df_initial, table>>

\* lines 261-293
BuildColumns ==
    /\ pc = "columns"
    /\ df_initial' = DfInitial(df_raw.rows, header_row_index)
    /\ metadata' = metadata @@ ("columns_found" :> df_initial'.columns)
    /\ pc' = "clean"
    /\ UNCHANGED <<app_vars, sheet_name, workbook, max_rows_to_scan, df_raw, model_loaded,
                   calls, scores, header_row_index, table>>

\* CleanAndReturn that treats a frame without rows as a failed parse
CleanAndReturn_EmptyIsError ==
    /\ pc = "clean"
    /\ LET r == clean_and_structure_data(df_initial)
       IN  IF r.raised
           THEN /\ pc' = "raised"
                /\ UNCHANGED <<metadata, table>>
           ELSE IF r.df.rows = <<>>
           THEN /\ table' = NoTable
                /\ metadata' = metadata @@ ("error" :> ErrHeader)
                /\ pc' = "returned"
           ELSE /\ table' = Table(r.df)
                /\ metadata' = r.meta @@ metadata
                /\ pc' = "returned"
    /\ UNCHANGED <<app_vars, sheet_name, workbook, max_rows_to_scan, df_raw, model_loaded,
                   calls, scores, header_row_index, df_initial>>

\* lines 295-299
CleanAndReturn ==
    /\ pc = "clean"
    /\ LET r == clean_and_structure_data(df_initial)
       IN  IF r.raised
           THEN /\ pc' = "raised"
                /\ UNCHANGED <<metadata, table>>
           ELSE /\ table' = Table(r.df)
                /\ metadata' = r.meta @@ metadata
                /\ pc' = "returned"
    /\ UNCHANGED <<app_vars, sheet_name, workbook, max_rows_to_scan, df_raw, model_loaded,
                   calls, scores, header_row_index, df_initial>>

Next ==
    \/ ReadExcel
    \/ ConstructHeaderFinder
    \/ FindSemantic
    \/ FindRuleBased
    \/ CheckHeader
    \/ BuildColumns
    \/ CleanAndReturn

-----------------------------------------------------------------------------
(* Worksheets *)

\* header cells
C_serial == Str(<<"xu", "hao">>)                          \* U+5E8F U+53F7
C_zone == Str(<<"gong2", "neng", "qu">>)                  \* U+529F U+80FD U+533A
C_name == Str(<<"xiang", "mu", "ming", "cheng1">>)        \* U+9879 U+76EE U+540D U+79F0
C_unit == Str(<<"dan", "wei">>)                           \* U+5355 U+4F4D
C_price == Str(<<"dan", "jia">>)                          \* U+5355 U+4EF7
C_total == Str(<<"he", "jia">>)                           \* U+5408 U+4EF7
C_note == Str(<<"bei", "zhu">>)                           \* U+5907 U+6CE8
\* data cells
C_floor == Str(<<"di", "mian">>)                          \* U+5730 U+9762
C_tile == Str(<<"di", "zhuan">>)                          \* U+5730 U+7816
C_room == Str(<<"ke", "ting">>)                           \* U+5BA2 U+5385
C_m2 == Str(<<"m", "2">>)
C_yuan == Str(<<"yuan">>)                                 \* U+5143
\* a cell of more than 50 characters
C_long == Str([i \in 1..(LongTextLen + 1) |-> "x"])
\* a cell of more than 50 characters that holds a keyword
C_longnote == Str(<<"bei", "zhu">> \o [i \in 1..(LongTextLen + 1) |-> "x"])

\* rows of a six-column cost sheet
RowBlank == <<NaN, NaN, NaN, NaN, NaN, NaN>>
RowHeader == <<C_serial, C_zone, C_name, C_unit, C_price, C_total>>
RowUnits == <<NaN, NaN, NaN, NaN, C_yuan, C_yuan>>
RowData == <<Num(1), C_room, C_tile, C_m2, Num(10), Num(20)>>
RowSummary == <<NaN, NaN, C_floor, NaN, NaN, Num(20)>>

RowPalette == {RowBlank, RowHeader, RowUnits, RowData, RowSummary}

\* the largest worksheet of Spec, in rows
MaxRows == 4

RECURSIVE SeqsUpTo(_, _)
\* the sequences over S of length at most n
SeqsUpTo(S, n) ==
    IF n = 0 THEN {<<>>}
    ELSE LET shorter == SeqsUpTo(S, n - 1)
         IN  shorter \cup {Append(q, x) : q \in {p \in shorter : Len(p) = n - 1}, x \in S}

\* A path is the text of the path cut into pieces; the empty text stands
\* for '' and for None, which every test of the code treats alike
\* (not file_path, not self.current_file_path)
NoPath == <<>>

\* tab_importer_refactored.py lines 41-42
TEMP_UPLOAD_DIR == <<"data", "/", "temp">>
TEST_DATA_FILE == <<"data", "/", "raw", "/", "test.xlsx">>

\* os.path.join(TEMP_UPLOAD_DIR, filename)
TempPath(filename) == TEMP_UPLOAD_DIR \o <<"/", filename>>

\* staged_metadata is None (a value that is no dict of the parser)
NoMetadata == [none |-> TRUE]

\* AppController.__init__
AppController ==
    [data |-> NoTable, staged_data |-> NoTable, staged_metadata |-> NoMetadata,
     current_file_path |-> NoPath, current_original_filename |-> None]

\* StateManager.create_import_state; last_updated (the wall clock) is left out
create_import_state(stage, current_file_path, original_filename, sheet_names, selected_sheet, preview_data_available, error) ==
    [stage |-> stage,
     current_file_path |-> current_file_path,
     original_filename |-> original_filename,
     sheet_names |-> sheet_names,
     selected_sheet |-> selected_sheet,
     preview_data_available |-> preview_data_available,
     error |-> error]

\* create_import_state called with a stage and an error, the rest defaulted
StageOnly(stage, error) ==
    create_import_state(stage, NoPath, None, <<>>, None, FALSE, error)

\* StateManager.get_initial_import_state
get_initial_import_state == StageOnly("idle", None)

\* the Outputs of the importer's callbacks
Outputs == {"IMPORT_STATE.data", "OUTPUT_CONTAINER.children"}

\* the value of ran: the operation, its argument, what it returned and
\* what each os.remove call it made did
Ran(op, arg, ret, removes) ==
    [op |-> op, arg |-> arg, ret |-> ret, removes |-> removes]

\* the children render_importer_ui returns: the component ids among them,
\* the options of the dropdown and the stage shown
Children(ids, options, shown) == [ids |-> ids, options |-> options, shown |-> shown]

\* the application after start-up: the layout is built, data/temp was
\* emptied by cleanup_old_temp_files and no callback has run
AppStart ==
    /\ controller = AppController
    /\ import_state = get_initial_import_state
    /\ output_container = Children({}, <<>>, "idle")
    /\ triggered = {}
    /\ files = (TEST_DATA_FILE :> "workbook")
    /\ processed = <<>>
    /\ ran = Ran("__init__", NoPath, "None",<<>>)
    /\ writers = [o \in Outputs |-> {}]

Sheet1(rows) == <<[name |-> "Sheet1", rows |-> rows]>>

\* the state before intelligent_read_excel is called
ParserStart ==
    /\ max_rows_to_scan = DefaultMaxRowsToScan
    /\ pc = "start"
    /\ df_raw = NoFrame
    /\ model_loaded = FALSE
    /\ calls = <<>>
    /\ scores = <<>>
    /\ header_row_index = -1
    /\ df_initial = EmptyDf
    /\ metadata = <<>>
    /\ table = NoTable

\* the state before intelligent_read_excel is called, in an application that
\* has just started
Start == ParserStart /\ AppStart

\* rows of the four-column sheet of the end-to-end scenario
E2EBlank == <<NaN, NaN, NaN, NaN>>
E2EHeader == <<C_serial, C_name, C_price, C_total>>
E2EData == {<<Num(1), C_tile, Num(10), Num(20)>>, <<Num(2), C_room, Num(10), Num(20)>>}
E2ESummary == <<C_floor, NaN, NaN, Num(20)>>

\* rows 0-1 blank, row 2 the header, rows 3-10 data, row 11 a summary row
E2ESheets ==
    {<<E2EBlank, E2EBlank, E2EHeader>> \o d \o <<E2ESummary>> :
        d \in [1..8 -> E2EData]}

\* a workbook of two worksheets
TwoSheets(g1, g2) == <<[name |-> "Sheet1", rows |-> g1], [name |-> "Sheet2", rows |-> g2]>>

\* one worksheet "Sheet1", read by name: at most MaxRows rows of the
\* six-column sheet, or a sheet of the end-to-end scenario; or, on a sheet of
\* at most one row, every sheet (None) or a sheet that is not there; or no
\* sheet named (None) on a workbook of two sheets of at most one row
Init ==
    /\ \/ /\ sheet_name = "Sheet1"
          /\ workbook \in {Sheet1(g) : g \in SeqsUpTo(RowPalette, MaxRows) \cup E2ESheets}
       \/ /\ sheet_name \in {None, "Sheet2"}
          /\ workbook \in {Sheet1(g) : g \in SeqsUpTo(RowPalette, 1)}
       \/ /\ sheet_name = None
          /\ workbook \in {TwoSheets(g1, g2) : g1, g2 \in SeqsUpTo(RowPalette, 1)}
    /\ Start

Spec == Init /\ [][Next]_vars

-----------------------------------------------------------------------------
(* Properties of intelligent_read_excel *)

HasKey(m, k) == k \in DOMAIN m

\* the read succeeded: pd.read_excel returned
ReadDone == df_raw.kind # "unset"

\* C1: every call that returns gives either a table and no 'error' in
\* metadata, or no table (None) and an 'error' in metadata.
C1_TableXorError ==
    pc = "returned" =>
        \/ table.present /\ ~HasKey(metadata, "error")
        \/ ~table.present /\ HasKey(metadata, "error")

\* a parse that returned a table with rows
C1_Witness ==
    pc = "returned" /\ table.present /\ table.rows # <<>> /\ ~HasKey(metadata, "error")

\* C2: the semantic scorer is called first, the rule-based locator only
\* after the semantic scorer returned -1; the first strategy that finds a row
\* decides header_row; the parse returns the header-not-found error, without
\* table and header_row, exactly when both strategies returned -1.
C2_StrategyOrder ==
    /\ Len(calls) <= 2
    /\ Len(calls) >= 1 => calls[1].name = "semantic"
    /\ Len(calls) = 2 =>
          calls[2].name = "rule_based" /\ ~calls[1].raised /\ calls[1].result = -1
    /\ pc \in {"check_header", "columns", "clean", "returned"} /\ ReadDone =>
          /\ calls[1].result = -1 => Len(calls) = 2
          /\ header_row_index = calls[Len(calls)].result
    /\ HasKey(metadata, "header_row") =>
          /\ metadata.header_row = calls[Len(calls)].result
          /\ metadata.header_row # -1
    /\ pc = "returned" /\ ReadDone =>
          ((Len(calls) = 2 /\ calls[1].result = -1 /\ calls[2].result = -1)
            <=> (/\ HasKey(metadata, "error")
                 /\ metadata.error = ErrHeader
                 /\ ~table.present
                 /\ ~HasKey(metadata, "header_row")))

\* the semantic scorer found nothing and the rule-based locator decided
C2_Witness ==
    /\ pc = "returned"
    /\ Len(calls) = 2
    /\ HasKey(metadata, "header_row")
    /\ metadata.header_row = calls[2].result

\* C3: a failed read aborts at once: no header strategy has run, there is no
\* table, and metadata holds the error and the requested source_sheet.
C3_ReadFailureAborts ==
    pc # "start" /\ ~ReadDone =>
        /\ pc = "returned"
        /\ calls = <<>>
        /\ ~table.present
        /\ DOMAIN metadata = {"source_sheet", "error"}
        /\ metadata.error = ErrRead
        /\ metadata.source_sheet = sheet_name

\* the read of a sheet that is not in the workbook failed
C3_Witness ==
    pc = "returned" /\ ~ReadDone /\ sheet_name = "Sheet2" /\ metadata.error = ErrRead

\* what intelligent_read_excel gives when the rule-based locator alone
\* chooses the header row
RuleBasedOutcome ==
    LET r == find_header_row_rule_based(df_raw, max_rows_to_scan)
        c == clean_and_structure_data(DfInitial(df_raw.rows, r.value))
    IN  IF r.raised THEN [pc |-> "raised", table |-> NoTable, header_row |-> -1, error |-> ""]
        ELSE IF r.value = -1
        THEN [pc |-> "returned", table |-> NoTable, header_row |-> -1, error |-> ErrHeader]
        ELSE IF c.raised
        THEN [pc |-> "raised", table |-> NoTable, header_row |-> r.value, error |-> ""]
        ELSE [pc |-> "returned", table |-> Table(c.df), header_row |-> r.value, error |-> ""]

\* the outcome of the call: how it ended, table, header_row and error
Outcome ==
    [pc |-> pc, table |-> table,
     header_row |-> IF HasKey(metadata, "header_row") THEN metadata.header_row ELSE -1,
     error |-> IF HasKey(metadata, "error") THEN metadata.error ELSE ""]

\* C4: without the semantic model (library missing or load failed)
\* find_header_row_semantic does not raise and returns -1 for every grid,
\* and the call ends as it does with the rule-based locator alone.
C4_NoModelIsRuleBased ==
    ~model_loaded /\ ReadDone /\ Len(calls) >= 1 =>
        /\ calls[1] = [name |-> "semantic", result |-> -1, raised |-> FALSE]
        /\ pc \in {"returned", "raised"} => Outcome = RuleBasedOutcome

\* a parse without the model that returned the table the rule-based header gives
C4_Witness ==
    /\ ~model_loaded /\ pc = "returned" /\ table.present /\ table.rows # <<>>
    /\ Len(calls) = 2 /\ calls[2].result >= 0

\* the names of RowHeader over RowUnits, both levels joined
TwoLevelNames ==
    << C_serial.s, C_zone.s, C_name.s, C_unit.s,
       C_price.s \o <<" ">> \o C_yuan.s, C_total.s \o <<" ">> \o C_yuan.s >>

\* row 0 holds the names, row 1 the units, and data rows follow from row 2
TwoHeaderSheet(rows) ==
    /\ Len(rows) >= 3
    /\ rows[1] = RowHeader
    /\ rows[2] = RowUnits
    /\ \A i \in 3..Len(rows) : rows[i] = RowData

\* C9: with two header rows (names, units) and data from row 2, the column
\* names join the labels of rows 0 and 1, the header block ends at row 1,
\* and row 2 is the first row of the table, not a part of the names.
C9_TwoRowHeader ==
    (/\ pc = "returned"
     /\ TwoHeaderSheet(workbook[1].rows)
     /\ HasKey(metadata, "header_row")
     /\ metadata.header_row = 0)
    => /\ metadata.columns_found = TwoLevelNames
       /\ table.present
       /\ Len(table.rows) = Len(workbook[1].rows) - 2
       /\ SubSeq(table.rows[1], 1, 6) = workbook[1].rows[3]

\* C10: on the end-to-end sheet the parse returns header_row = 2, a table
\* of exactly 8 rows (source rows 3-10) and no error.
C10_EndToEnd ==
    (pc = "returned" /\ workbook[1].rows \in E2ESheets /\ ReadDone)
    => /\ HasKey(metadata, "header_row")
       /\ metadata.header_row = 2
       /\ ~HasKey(metadata, "error")
       /\ table.present
       /\ Len(table.rows) = 8

\* the worksheets with a row to score, and the best score of the preview of
\* worksheet i under get_row_score
ScoredSheets ==
    {i \in 1..Len(workbook) : ScoreList(workbook[i].rows, max_rows_to_scan) # <<>>}
BestScore(i) ==
    LET sc == ScoreList(workbook[i].rows, max_rows_to_scan)
    IN  sc[argmax(sc) + 1]

\* C19: with no sheet specified the parse goes on with the worksheet whose
\* best row scores highest under the rule-based scorer, the one of smallest
\* index among those that tie: the call returns, and metadata names that
\* worksheet as its source.
C19_BestSheetSelected ==
    (sheet_name = None /\ ReadDone /\ pc \in {"returned", "raised"} /\ ScoredSheets # {})
    => LET selected == CHOOSE i \in ScoredSheets :
                          /\ \A j \in ScoredSheets : RatLe(BestScore(j), BestScore(i))
                          /\ \A j \in ScoredSheets : j < i => RatLt(BestScore(j), BestScore(i))
       IN  /\ pc = "returned"
           /\ metadata.source_sheet = workbook[selected].name

-----------------------------------------------------------------------------
(* find_header_row_rule_based and get_row_score on their own *)

\* rows of a three-column sheet for the row scorer
ScoreRows ==
    { <<NaN, NaN, NaN>>,
      <<C_room, NaN, NaN>>,                    \* one short cell
      <<NaN, C_longnote, NaN>>,                \* one long cell with a keyword
      <<C_total, NaN, C_price>>,               \* two keyword cells
      <<C_serial, C_name, C_price>>,           \* three keyword cells
      <<C_longnote, C_longnote, C_longnote>>,  \* three long keyword cells
      <<C_note, C_note, Num(1)>> }             \* below the threshold

\* the largest sheet of ScoreRows, in rows
MaxScoreRows == 2

\* the largest max_rows_to_scan tried on them
MaxScan == 2

\* rows without any keyword, and rows with at least five keyword cells
PlainRows == {RowBlank, RowData, <<C_room, C_tile, NaN, NaN, NaN, NaN>>}
KeywordRows ==
    { RowHeader,
      <<C_note, C_note, C_note, C_note, C_note, NaN>>,
      <<C_note, C_note, C_note, C_note, C_note, C_long>> }

\* sheets whose row 5 alone holds keyword cells
Row5Sheets == {p \o <<k>> : p \in [1..5 -> PlainRows], k \in KeywordRows}

\* find_header_row_rule_based is about to be called on a DataFrame
StartRuleBased(g) ==
    /\ sheet_name = "Sheet1"
    /\ workbook = Sheet1(g)
    /\ df_raw = Frame(g)
    /\ pc = "rule_based"
    /\ model_loaded = FALSE
    /\ calls = <<>>
    /\ scores = <<>>
    /\ header_row_index = -1
    /\ df_initial = EmptyDf
    /\ metadata = ("source_sheet" :> "Sheet1")
    /\ table = NoTable
    /\ AppStart

InitScore ==
    \/ \E g \in SeqsUpTo(ScoreRows, MaxScoreRows) :
          /\ StartRuleBased(g)
          /\ max_rows_to_scan \in 0..MaxScan
    \/ \E g \in Row5Sheets :
          /\ StartRuleBased(g)
          /\ max_rows_to_scan = DefaultMaxRowsToScan

SpecScore == InitScore /\ [][FindRuleBased]_vars

\* find_header_row_rule_based has returned
RuleBasedDone == pc = "check_header" /\ Len(calls) = 1 /\ calls[1].name = "rule_based"

\* the cells of a row that hold a keyword
KeywordCells(row) ==
    {i \in 1..Len(row) : notna(row[i]) /\ KeywordScore(PyStr(row[i])) > 0}

\* C5: when row 5 holds at least 5 keyword cells and no other scanned row
\* holds any, row 5 scores strictly highest and 5 is returned.
C5_Row5Wins ==
    LET rows == df_raw.rows
    IN  (/\ RuleBasedDone
         /\ Len(rows) >= 6
         /\ Cardinality(KeywordCells(rows[6])) >= 5
         /\ \A i \in 1..Len(scores) : i # 6 => KeywordCells(rows[i]) = {})
        => /\ header_row_index = 5
           /\ \A i \in 1..Len(scores) : i # 6 => RatLt(scores[i], scores[6])

\* C6: a row with exactly one non-empty, short cell never scores above a
\* row with three or more non-empty cells that each hold a keyword.
C6_SingleCellBelowKeywordRow ==
    LET rows == df_raw.rows
        OneShort(row) ==
            /\ NumNonEmpty(row) = 1
            /\ \A i \in 1..Len(row) : notna(row[i]) => Len(PyStr(row[i])) <= LongTextLen
        KeywordRow(row) ==
            /\ NumNonEmpty(row) >= 3
            /\ Cardinality(KeywordCells(row)) = NumNonEmpty(row)
    IN  RuleBasedDone =>
            \A i, j \in 1..Len(scores) :
                OneShort(rows[i]) /\ KeywordRow(rows[j]) => RatLe(scores[i], scores[j])

\* C7: a row with zero or one non-empty cell scores exactly 0, whatever the
\* cell holds.
C7_SparseRowScoresZero ==
    RuleBasedDone =>
        \A i \in 1..Len(scores) :
            NumNonEmpty(df_raw.rows[i]) <= 1 => scores[i] = Rat(0, 1)

\* a scored row whose only cell is long and holds a keyword
C7_Witness ==
    RuleBasedDone /\ \E i \in 1..Len(scores) : df_raw.rows[i] = <<NaN, C_longnote, NaN>>

\* C8: only the first min(len(grid), max_rows_to_scan) rows are inspected;
\* -1 is returned, not raised, exactly when the grid is empty or every score
\* in that window is below the threshold; otherwise the returned index lies
\* in the window and its score is the maximum of the window.
C8_WindowMaximum ==
    LET rows == df_raw.rows
        n == Min(Len(rows), max_rows_to_scan)
        h == header_row_index
    IN  (pc \in {"check_header", "raised"} /\ Len(calls) = 1 /\ calls[1].name = "rule_based")
        => /\ pc = "check_header"
           /\ Len(scores) = n
           /\ h = find_header_row_rule_based(Frame(SubSeq(rows, 1, n)), n).value
           /\ h = -1 <=> (rows = <<>> \/ \A i \in 1..n : RatLt(get_row_score(rows[i]), RuleThreshold))
           /\ h # -1 =>
                /\ h \in 0..(n - 1)
                /\ \A i \in 1..n : RatLe(get_row_score(rows[i]), get_row_score(rows[h + 1]))

\* a row outside the window scores above the row returned
C8_Witness ==
    /\ RuleBasedDone
    /\ header_row_index >= 0
    /\ \E i \in (max_rows_to_scan + 1)..Len(df_raw.rows) :
          RatLt(get_row_score(df_raw.rows[header_row_index + 1]), get_row_score(df_raw.rows[i]))

-----------------------------------------------------------------------------
(* Phases 2 and 3 on their own: the column names and the structuring *)

C_price1 == Str(<<"dan", "jia", "_", "1">>)               \* U+5355 U+4EF7 _1
C_formula == Str(<<"=", "S", "U", "M", "(", "A", "1", ":", "A", "5", ")">>)
C_ceiling == Str(<<"tian", "hua">>)                       \* U+5929 U+82B1
C_thirty == Str(<<"3", "0">>)

\* rows of a four-column sheet whose header cells repeat, are missing, or
\* hold a formula
ColRepeat == <<C_price, C_price, C_price1, C_total>>
ColGaps == <<NaN, C_serial, NaN, C_price>>
ColUnits == <<NaN, NaN, C_yuan, C_formula>>
ColData == <<Num(1), C_tile, Num(10), Num(20)>>
ColPartial == <<NaN, C_floor, NaN, Num(20)>>

ColumnRows == {E2EBlank, E2EHeader, ColRepeat, ColGaps, ColUnits, ColData, ColPartial}

\* the largest sheet of ColumnRows, in rows
MaxColumnRows == 3

\* header rows with and without the columns the structuring looks for:
\* serial number, zone and project name
HdrAll == <<C_serial, C_zone, C_name, C_total>>
HdrNoSerial == <<C_zone, C_name, C_price, C_total>>
HdrSerialOnly == <<C_serial, C_unit, C_price, C_total>>
HdrNone == <<C_unit, C_price, C_total, C_note>>

HierarchyHeaders == {HdrAll, HdrNoSerial, HdrSerialOnly, HdrNone}

\* rows below the header block: data rows (a serial number), summary rows
\* (no serial number, or text for it) with the labels di mian, tian hua or
\* none, a blank row
DataOne == <<Num(1), C_room, C_tile, Num(20)>>
DataTwo == <<Num(2), C_room, C_m2, C_thirty>>
SumFloor == <<NaN, NaN, C_floor, Num(20)>>
SumCeiling == <<NaN, NaN, C_ceiling, NaN>>
SumNoLabel == <<NaN, NaN, NaN, Num(20)>>

\* a summary row whose serial-number cell holds text (xiao ji: subtotal)
C_subtotal == Str(<<"xiao", "ji">>)
SumText == <<C_subtotal, NaN, C_ceiling, Num(20)>>

BodyRows == {E2EBlank, DataOne, DataTwo, SumFloor, SumNoLabel, SumText}

\* the most rows below the header block
MaxBodyRows == 3

\* a summary row, three data rows, a second summary row, a data row
SectionsSheet ==
    <<HdrAll, E2EBlank, E2EBlank,
      SumFloor, DataOne, DataTwo, DataOne, SumCeiling, DataTwo>>

\* a header row over two rows without data (the block of three), then the body
HierarchySheets ==
    {<<h, E2EBlank, E2EBlank>> \o b :
        h \in HierarchyHeaders, b \in SeqsUpTo(BodyRows, MaxBodyRows)}
    \cup {SectionsSheet}

\* the header row was found by the rules (no model) and line 259 has run
StartColumns(g, h) ==
    /\ sheet_name = "Sheet1"
    /\ workbook = Sheet1(g)
    /\ max_rows_to_scan = DefaultMaxRowsToScan
    /\ df_raw = Frame(g)
    /\ pc = "columns"
    /\ model_loaded = FALSE
    /\ calls = <<Call("semantic", Ret(-1)), Call("rule_based", Ret(h))>>
    /\ scores = ScoreList(g, DefaultMaxRowsToScan)
    /\ header_row_index = h
    /\ df_initial = EmptyDf
    /\ metadata = ("source_sheet" :> "Sheet1") @@ ("header_row" :> h)
    /\ table = NoTable
    /\ AppStart

InitStructure ==
    \E g \in SeqsUpTo(ColumnRows, MaxColumnRows) \cup HierarchySheets :
        LET r == find_header_row_rule_based(Frame(g), DefaultMaxRowsToScan)
        IN  r.value >= 0 /\ StartColumns(g, r.value)

NextStructure ==
    \/ BuildColumns
    \/ CleanAndReturn

SpecStructure == InitStructure /\ [][NextStructure]_vars

\* the names merged from the header block, before the suffixes
MergedNames == NewColumns(header_block(df_raw.rows, header_row_index))

\* lines 266-293 have run
ColumnsBuilt == HasKey(metadata, "columns_found")

Distinct(cols) == \A i, j \in 1..Len(cols) : i # j => cols[i] # cols[j]

\* C11: after the suffixes are added the column names are pairwise
\* distinct: the k-th repeat (k >= 1) of a merged name n is n_k, in order of
\* occurrence, and no two columns of the frame or of the returned table have
\* the same name.
C11_ColumnsDistinct ==
    ColumnsBuilt =>
        LET final == metadata.columns_found
            Repeat(i) == Cardinality({j \in 1..(i - 1) : MergedNames[j] = MergedNames[i]})
        IN  /\ Len(final) = Len(MergedNames)
            /\ \A i \in 1..Len(final) :
                  final[i] = IF Repeat(i) = 0 THEN MergedNames[i]
                             ELSE MergedNames[i] \o <<"_">> \o NumStr(Repeat(i))
            /\ Distinct(final)
            /\ table.present => Distinct(table.columns)

\* the header block the names were merged from
Block == header_block(df_raw.rows, header_row_index)

\* the width of the grid
GridWidth == Len(df_raw.rows[1])

\* every cell of column i of the header block is empty
EmptyInBlock(i) == \A r \in 1..Len(Block) : ~notna(Block[r][i])

\* name is base, or base with a suffix _k
IsNameOrRepeat(name, base) ==
    name = base \/ \E k \in 1..GridWidth : name = base \o <<"_">> \o NumStr(k)

\* C12 as claimed: one name per grid column, and a column whose header
\* cells are all empty is named by the empty string and retained.
C12_EmptyHeaderIsEmptyName ==
    ColumnsBuilt =>
        /\ Len(metadata.columns_found) = GridWidth
        /\ \A i \in 1..GridWidth : EmptyInBlock(i) => metadata.columns_found[i] = <<>>
        /\ table.present => Len(table.columns) >= GridWidth

\* C12 amended: one name per grid column, every column retained; a column
\* whose header cells are all empty takes the label of the nearest non-empty
\* top-row cell to its left (with a suffix _k when the name repeats), and the
\* empty string only when there is no such cell.
C12_EmptyHeaderTakesLeftLabel ==
    ColumnsBuilt =>
        /\ Len(metadata.columns_found) = GridWidth
        /\ \A i \in 1..GridWidth :
              EmptyInBlock(i) =>
                  LET left == {j \in 1..i : ValidTopCell(Block[1][j])}
                      base == IF left = {} THEN <<>>
                              ELSE CleanLabel(Block[1][CHOOSE j \in left : \A k \in left : k <= j])
                  IN  IsNameOrRepeat(metadata.columns_found[i], base)
        /\ table.present =>
              /\ Len(table.columns) \in {GridWidth, GridWidth + 1}
              /\ \A i \in 1..GridWidth :
                    table.columns[i] \in {metadata.columns_found[i], L2Name}

\* a returned table with an empty header column named by the empty string
\* and another named after the label to its left
C12_Witness ==
    /\ pc = "returned" /\ table.present
    /\ \E i, j \in 1..GridWidth :
          /\ EmptyInBlock(i) /\ table.columns[i] = <<>>
          /\ EmptyInBlock(j) /\ table.columns[j] = C_serial.s \o <<"_", "1">>

\* every key intelligent_read_excel and _clean_and_structure_data put into
\* metadata
MetadataKeys ==
    {"source_sheet", "error", "header_row", "columns_found", "l1_column", "l2_column"}

\* C13: a header-block cell containing "=" is recorded in metadata as the
\* formula of its column (an entry besides the keys above) and does not
\* appear in the name of the column.
C13_FormulaExtracted ==
    ColumnsBuilt =>
        \A i \in 1..GridWidth :
            (\E r \in 1..Len(Block) :
                isinstance_str(Block[r][i]) /\ Contains(<<"=">>, Block[r][i].s))
            => /\ \E k \in DOMAIN metadata : k \notin MetadataKeys
               /\ ~Contains(<<"=">>, metadata.columns_found[i])

\* the position of the serial-number column among the names found, 0 for none
SerialColumn == FirstColumn(df_initial.columns, SerialKey)

\* the positions, in df_initial, of the rows that are not fully empty
KeptPositions ==
    {r \in 1..Len(df_initial.rows) :
        \E i \in 1..Len(df_initial.rows[r]) : notna(df_initial.rows[r][i])}

\* the k-th of them, and the source row there
KthKept(k) == CHOOSE r \in KeptPositions : Cardinality({q \in KeptPositions : q < r}) = k - 1
SourceRow(k) == df_initial.rows[KthKept(k)]

\* a summary row: there is a serial-number column and the cell of the row
\* there is empty or not a number
IsSummaryRow(row) ==
    SerialColumn # 0 /\ (~notna(row[SerialColumn]) \/ ~Convertible(row[SerialColumn]))

\* _clean_and_structure_data returned a table with rows
Structured == pc = "returned" /\ table.present /\ table.rows # <<>>

HasL1 == Structured /\ HasKey(metadata, "l1_column")

\* the positions of the column L1 and of the project-name column the labels
\* are read from
L1Column == CHOOSE p \in 1..Len(table.columns) : table.columns[p] = L1Name
ProjectColumn == FirstColumn(table.columns, ProjectNameKey)

\* the summary rows above row k of the table
SummaryRowsAbove(k) == {j \in 1..(k - 1) : IsSummaryRow(SourceRow(j))}

\* C15: the L1 of every data row is the section label of the nearest
\* summary row above it: each summary row overwrites the current L1, which
\* is then carried over the data rows up to the next summary row.
C15_L1FromNearestSummary ==
    HasL1 =>
        \A k \in 1..Len(table.rows) :
            ~IsSummaryRow(SourceRow(k)) /\ SummaryRowsAbove(k) # {} =>
                LET nearest == CHOOSE j \in SummaryRowsAbove(k) :
                                  \A q \in SummaryRowsAbove(k) : q <= j
                IN  table.rows[k][L1Column] = SourceRow(nearest)[ProjectColumn]

\* C16: in a table the hierarchy was built for, the L1 of every row is
\* non-null, also above the first summary row and below a summary row whose
\* label cell is empty.
C16_L1NeverNull ==
    HasL1 => \A k \in 1..Len(table.rows) : notna(table.rows[k][L1Column])

\* the position of the grouping (zone) column among the names found, 0 for none
ZoneColumn == FirstColumn(df_initial.columns, ZoneKey)

\* C17: when the names found hold no anchor (serial-number) column or no
\* grouping (zone) column, the structuring is skipped: the call returns
\* without error, no column is added or renamed, metadata gets neither
\* l1_column nor l2_column, and the cells are the cells of the source rows
\* (stated here up to the reading of numeric text as numbers, lines 221-224).
C17_HierarchySkipped ==
    (ColumnsBuilt /\ pc \in {"returned", "raised"} /\ (SerialColumn = 0 \/ ZoneColumn = 0))
    => /\ pc = "returned"
       /\ table.present
       /\ table.columns = df_initial.columns
       /\ ~HasKey(metadata, "l1_column")
       /\ ~HasKey(metadata, "l2_column")
       /\ Len(table.rows) = Cardinality(KeptPositions)
       /\ \A k \in 1..Len(table.rows) :
             /\ Len(table.rows[k]) = Len(SourceRow(k))
             /\ \A i \in 1..Len(SourceRow(k)) :
                   table.rows[k][i] \in {SourceRow(k)[i], to_numeric_coerce(SourceRow(k)[i])}

\* the header was found and every row below the header block, if any, is
\* fully empty
NoDataBelow ==
    /\ HasKey(metadata, "header_row")
    /\ \A r \in (metadata.header_row + HeaderBlockRows + 1)..Len(df_raw.rows) :
          \A i \in 1..Len(df_raw.rows[r]) : ~notna(df_raw.rows[r][i])

\* the call is over: it returned or an exception left it
CallOver == pc \in {"returned", "raised"}

RowsBelowBlock ==
    {r \in (metadata.header_row + Len(Block) + 1)..Len(df_raw.rows) :
        \E i \in 1..Len(df_raw.rows[r]) : notna(df_raw.rows[r][i])}

\* the k-th of them
KthBelowBlock(k) ==
    CHOOSE r \in RowsBelowBlock : Cardinality({q \in RowsBelowBlock : q < r}) = k - 1

\* C20: the rows of the returned table are the rows of the grid below the
\* header block without the fully empty ones, in the order of the grid (the
\* k-th row of the table holds the cells of the k-th such row, numeric text
\* read as numbers and a non-numeric serial number emptied), and the index
\* of the table is 0..n-1.
C20_RowOrderKept ==
    pc = "returned" /\ table.present =>
        /\ Len(table.rows) = Cardinality(RowsBelowBlock)
        /\ table.index = [k \in 1..Len(table.rows) |-> k - 1]
        /\ \A k \in 1..Len(table.rows) :
              \A i \in 1..GridWidth :
                  table.columns[i] # L1Name =>
                      LET cell == df_raw.rows[KthBelowBlock(k)][i]
                      IN  table.rows[k][i] \in {cell, to_numeric_coerce(cell)}

\* a returned table of two different rows that had an empty row between
\* them in the grid
C20_Witness ==
    /\ pc = "returned" /\ table.present /\ Len(table.rows) = 2
    /\ table.rows[1][3] # table.rows[2][3]
    /\ KthBelowBlock(2) = KthBelowBlock(1) + 2

\* C24: _clean_and_structure_data keeps the summary rows (the rows whose
\* serial number is not numeric) in the returned table and only clears their
\* serial-number cell to null: the other cells stay as they were (up to the
\* conversion of numeric text; the L1 column is added); the number of
\* returned rows is the number of input rows that are not fully empty.
C24_SummaryRowsOnlyLoseSerial ==
    pc = "returned" /\ table.present /\ ColumnsBuilt =>
        /\ Len(table.rows) = Cardinality(KeptPositions)
        /\ \A k \in 1..Len(table.rows) :
              IsSummaryRow(SourceRow(k)) =>
                  /\ table.rows[k][SerialColumn] = NaN
                  /\ \A i \in 1..Len(df_initial.columns) :
                        i # SerialColumn /\ table.columns[i] # L1Name =>
                            table.rows[k][i] \in {SourceRow(k)[i],
                                                  to_numeric_coerce(SourceRow(k)[i])}

\* a summary row whose serial-number cell held the text xiao ji is in the
\* returned table with that cell emptied and its label kept, and a fully
\* empty row of the input is not
C24_Witness ==
    /\ Structured
    /\ SerialColumn # 0
    /\ Cardinality(KeptPositions) < Len(df_initial.rows)
    /\ \E k \in 1..Len(table.rows) :
          /\ SourceRow(k)[SerialColumn] = C_subtotal
          /\ table.rows[k][SerialColumn] = NaN
          /\ C_ceiling \in {table.rows[k][i] : i \in 1..Len(df_initial.columns)}

-----------------------------------------------------------------------------
(* AppController (app/app_controller.py) *)

\* The workbook of an uploaded file: Sheet1 parses to a table of one row,
\* Sheet2 to a table without rows, Sheet3 has no header row, and on Sheet4
\* _clean_and_structure_data raises (two columns of one name)
UploadedWorkbook ==
    <<[name |-> "Sheet1", rows |-> <<HdrAll, E2EBlank, E2EBlank, DataOne>>],
      [name |-> "Sheet2", rows |-> <<HdrAll>>],
      [name |-> "Sheet3", rows |-> <<DataOne>>],
      [name |-> "Sheet4", rows |-> <<ColRepeat, E2EBlank, E2EBlank, ColData>>]>>

\* excel_file.sheet_names
SheetNames == [i \in 1..Len(UploadedWorkbook) |-> UploadedWorkbook[i].name]

\* the file is there and pandas can open it as a workbook
Readable(fs, path) == path \in DOMAIN fs /\ fs[path] = "workbook"

\* intelligent_read_excel(file_path, sheet_name) as the controller calls it,
\* the semantic model not loaded: the table (NoTable for None), the
\* metadata, and whether the call raised
intelligent_read_excel(fs, file_path, sheet) ==
    LET found == {i \in 1..Len(UploadedWorkbook) : UploadedWorkbook[i].name = sheet}
        rows == UploadedWorkbook[CHOOSE i \in found : TRUE].rows
        r == find_header_row_rule_based(Frame(rows), DefaultMaxRowsToScan)
        d == DfInitial(rows, r.value)
        c == clean_and_structure_data(d)
        m == ("source_sheet" :> sheet)
    IN  IF ~Readable(fs, file_path) \/ found = {}
        THEN [raised |-> FALSE, df |-> NoTable, metadata |-> m @@ ("error" :> ErrRead)]
        ELSE IF r.raised
        THEN [raised |-> TRUE, df |-> NoTable, metadata |-> m]
        ELSE IF r.value = -1
        THEN [raised |-> FALSE, df |-> NoTable, metadata |-> m @@ ("error" :> ErrHeader)]
        ELSE IF c.raised
        THEN [raised |-> TRUE, df |-> NoTable, metadata |-> m]
        ELSE [raised |-> FALSE, df |-> Table(c.df),
              metadata |-> c.meta @@ m @@ ("header_row" :> r.value)
                           @@ ("columns_found" :> d.columns)]

\* lines 47-59: the controller after the call and the sheet names returned
get_excel_sheet_names(ctl, fs, file_path, original_filename) ==
    [controller |-> [ctl EXCEPT !.current_file_path = file_path,
                                !.current_original_filename = original_filename],
     sheet_names |-> IF Readable(fs, file_path) THEN SheetNames ELSE <<>>]

\* the messages parse_and_stage_excel returns
MsgNoPath == "no file path to parse"
MsgParseFailed == "parse failed"
MsgUnexpected == "unexpected error"
MsgParsed == "parsed"

\* parse_and_stage_excel that clears what was staged before it parses
parse_and_stage_excel_ClearsFirst(ctl, fs, sheet) ==
    LET r == intelligent_read_excel(fs, ctl.current_file_path, sheet)
        cleared == [ctl EXCEPT !.staged_data = NoTable, !.staged_metadata = NoMetadata]
    IN  IF ctl.current_file_path = NoPath
        THEN [controller |-> ctl, df |-> NoTable, message |-> MsgNoPath]
        ELSE IF r.raised
        THEN [controller |-> cleared, df |-> NoTable, message |-> MsgUnexpected]
        ELSE IF ~r.df.present
        THEN [controller |-> cleared, df |-> NoTable, message |-> MsgParseFailed]
        ELSE [controller |->
                 [ctl EXCEPT !.staged_data = r.df,
                             !.staged_metadata =
                                 ("original_filename" :> ctl.current_original_filename)
                                 @@ r.metadata],
              df |-> r.df, message |-> MsgParsed]

\* lines 61-84: the controller after the call, the table returned (NoTable
\* for None) and the message
parse_and_stage_excel(ctl, fs, sheet) ==
    LET r == intelligent_read_excel(fs, ctl.current_file_path, sheet)
    IN  IF ctl.current_file_path = NoPath
        THEN [controller |-> ctl, df |-> NoTable, message |-> MsgNoPath]
        ELSE IF r.raised
        THEN [controller |-> ctl, df |-> NoTable, message |-> MsgUnexpected]
        ELSE IF ~r.df.present
        THEN [controller |-> ctl, df |-> NoTable, message |-> MsgParseFailed]
        ELSE [controller |->
                 [ctl EXCEPT !.staged_data = r.df,
                             !.staged_metadata =
                                 ("original_filename" :> ctl.current_original_filename)
                                 @@ r.metadata],
              df |-> r.df, message |-> MsgParsed]

\* discard_staged_data that forgets to clear staged_metadata
discard_staged_data_KeepsMetadata(ctl) ==
    [ctl EXCEPT !.staged_data = NoTable,
                !.current_file_path = NoPath, !.current_original_filename = None]

\* lines 122-128
discard_staged_data(ctl) ==
    [ctl EXCEPT !.staged_data = NoTable, !.staged_metadata = NoMetadata,
                !.current_file_path = NoPath, !.current_original_filename = None]

\* what can happen while commit_staged_data saves: nothing, df.to_parquet
\* raises, or save_index raises
SaveOutcomes == {"saved", "to_parquet raised", "save_index raised"}

\* the messages commit_staged_data returns
MsgNothingStaged == "nothing staged"
MsgCommitError == "error while committing"
MsgSaved == "saved"

\* one file of data/processed: the frame and whether index.json lists it
Saved(df, indexed) == [df |-> df, indexed |-> indexed]

\* commit_staged_data that makes the staged table the active data before it
\* saves it
commit_staged_data_DataFirst(ctl, store, save) ==
    IF ctl.staged_data = NoTable \/ ctl.staged_metadata = NoMetadata
    THEN [controller |-> ctl, processed |-> store, success |-> FALSE,
          message |-> MsgNothingStaged]
    ELSE IF ctl.staged_metadata.original_filename = None \/ save = "to_parquet raised"
    THEN [controller |-> [ctl EXCEPT !.data = ctl.staged_data], processed |-> store,
          success |-> FALSE, message |-> MsgCommitError]
    ELSE IF save = "save_index raised"
    THEN [controller |-> [ctl EXCEPT !.data = ctl.staged_data],
          processed |-> Append(store, Saved(ctl.staged_data, FALSE)),
          success |-> FALSE, message |-> MsgCommitError]
    ELSE [controller |-> discard_staged_data([ctl EXCEPT !.data = ctl.staged_data]),
          processed |-> Append(store, Saved(ctl.staged_data, TRUE)),
          success |-> TRUE, message |-> MsgSaved]

\* lines 86-120: the controller and data/processed after the call, and the
\* pair returned.  original_filename.rsplit raises on None (line 98).
commit_staged_data(ctl, store, save) ==
    IF ctl.staged_data = NoTable \/ ctl.staged_metadata = NoMetadata
    THEN [controller |-> ctl, processed |-> store, success |-> FALSE,
          message |-> MsgNothingStaged]
    ELSE IF ctl.staged_metadata.original_filename = None \/ save = "to_parquet raised"
    THEN [controller |-> ctl, processed |-> store, success |-> FALSE,
          message |-> MsgCommitError]
    ELSE IF save = "save_index raised"
    THEN [controller |-> ctl,
          processed |-> Append(store, Saved(ctl.staged_data, FALSE)),
          success |-> FALSE, message |-> MsgCommitError]
    ELSE [controller |-> discard_staged_data([ctl EXCEPT !.data = ctl.staged_data]),
          processed |-> Append(store, Saved(ctl.staged_data, TRUE)),
          success |-> TRUE, message |-> MsgSaved]

\* the frames index.json lists, oldest first (the keys begin with the time
\* of the commit, so max(index.keys()) is the last of them)
RECURSIVE Indexed(_)
Indexed(store) ==
    IF store = <<>> THEN <<>>
    ELSE LET rest == Indexed(SubSeq(store, 1, Len(store) - 1))
             e == store[Len(store)]
         IN  IF e.indexed THEN Append(rest, e.df) ELSE rest

\* lines 130-142: found is whether pd.read_parquet finds the file
get_latest_data(ctl, store, found) ==
    LET listed == Indexed(store)
    IN  IF listed = <<>> \/ ~found THEN ctl
        ELSE [ctl EXCEPT !.data = listed[Len(listed)]]

\* the variables of intelligent_read_excel
parser_vars == <<sheet_name, workbook, max_rows_to_scan, pc, df_raw, model_loaded,
                 calls, scores, header_row_index, df_initial, metadata, table>>

\* intelligent_read_excel is not running
ParserIdle == sheet_name = None /\ workbook = <<>> /\ ParserStart

\* os.path.basename
Basename(path) == IF path = NoPath THEN "" ELSE path[Len(path)]

\* the most files commit_staged_data writes to data/processed in one run
MaxCommits == 2

\* the files on disk: the test workbook, an uploaded workbook and an upload
\* that is no workbook
ControllerFiles ==
    (TEST_DATA_FILE :> "workbook") @@ (TempPath("a.xlsx") :> "workbook")
    @@ (TempPath("b.xlsx") :> "corrupt")

\* the paths the controller is pointed at: the two uploads, and no path
ControllerPaths == {TempPath("a.xlsx"), TempPath("b.xlsx"), NoPath}

\* the sheet names a caller passes: the sheets of the workbook and one more
SheetArgs == {SheetNames[i] : i \in 1..Len(SheetNames)} \cup {"Sheet9"}

\* what the operation returned, as text
Py(b) == IF b THEN "True" ELSE "False"

GetExcelSheetNames ==
    /\ \E file_path \in ControllerPaths :
        LET r == get_excel_sheet_names(controller, files, file_path, Basename(file_path))
        IN  /\ controller' = r.controller
            /\ ran' = Ran("get_excel_sheet_names", file_path,
                          IF r.sheet_names = <<>> THEN "[]" ELSE "sheet_names",<<>>)
    /\ UNCHANGED <<parser_vars, import_state, output_container, triggered, files,
                   processed, writers>>

ParseAndStageExcel ==
    /\ \E sheet \in SheetArgs :
        LET r == parse_and_stage_excel(controller, files, sheet)
        IN  /\ controller' = r.controller
            /\ ran' = Ran("parse_and_stage_excel", <<sheet>>, r.message,<<>>)
    /\ UNCHANGED <<parser_vars, import_state, output_container, triggered, files,
                   processed, writers>>

CommitStagedData ==
    /\ Len(processed) < MaxCommits
    /\ \E save \in SaveOutcomes :
        LET r == commit_staged_data(controller, processed, save)
        IN  /\ controller' = r.controller
            /\ processed' = r.processed
            /\ ran' = Ran("commit_staged_data", NoPath, Py(r.success),<<>>)
    /\ UNCHANGED <<parser_vars, import_state, output_container, triggered, files,
                   writers>>

DiscardStagedData ==
    /\ controller' = discard_staged_data(controller)
    /\ ran' = Ran("discard_staged_data", NoPath, "None",<<>>)
    /\ UNCHANGED <<parser_vars, import_state, output_container, triggered, files,
                   processed, writers>>

GetLatestData ==
    /\ \E found \in BOOLEAN :
        /\ controller' = get_latest_data(controller, processed, found)
        /\ ran' = Ran("get_latest_data", NoPath,
                      IF Indexed(processed) = <<>> \/ ~found THEN "None" ELSE "data",
                     <<>>)
    /\ UNCHANGED <<parser_vars, import_state, output_container, triggered, files,
                   processed, writers>>

\* a controller that was just constructed, beside the files on disk
InitController ==
    /\ ParserIdle
    /\ controller = AppController
    /\ import_state = get_initial_import_state
    /\ output_container = Children({}, <<>>, "idle")
    /\ triggered = {}
    /\ files = ControllerFiles
    /\ processed = <<>>
    /\ ran = Ran("__init__", NoPath, "None",<<>>)
    /\ writers = [o \in Outputs |-> {}]

\* the operations of the controller, called in any order
NextController ==
    \/ GetExcelSheetNames
    \/ ParseAndStageExcel
    \/ CommitStagedData
    \/ DiscardStagedData
    \/ GetLatestData

SpecController == InitController /\ [][NextController]_vars

\* C27: after any sequence of AppController operations, staged_data is None
\* exactly when staged_metadata is None.
C27_StagedTogether ==
    (controller.staged_data = NoTable) <=> (controller.staged_metadata = NoMetadata)

\* a table is staged with its metadata after a parse, and the controller has
\* seen a commit since it was constructed
C27_Witness ==
    /\ controller.staged_data # NoTable
    /\ controller.staged_metadata # NoMetadata
    /\ ran.op = "parse_and_stage_excel"
    /\ processed # <<>>

\* the three attributes a failed operation must leave alone
StagingKept ==
    /\ controller'.data = controller.data
    /\ controller'.staged_data = controller.staged_data
    /\ controller'.staged_metadata = controller.staged_metadata

\* commit_staged_data would succeed on controller c if saving goes well
Committable(c) == commit_staged_data(c, processed, "saved").success

\* C28: a successful commit_staged_data makes the formerly staged table the
\* active data and clears staged_data, staged_metadata, current_file_path and
\* current_original_filename; a commit that fails (nothing staged, or an
\* exception while saving) returns False and leaves data, staged_data and
\* staged_metadata unchanged.
C28_CommitAllOrNothing ==
    [][ran'.op = "commit_staged_data" =>
          IF ran'.ret = "True"
          THEN /\ controller.staged_data # NoTable
               /\ controller'.data = controller.staged_data
               /\ controller'.staged_data = NoTable
               /\ controller'.staged_metadata = NoMetadata
               /\ controller'.current_file_path = NoPath
               /\ controller'.current_original_filename = None
          ELSE /\ ran'.ret = "False"
               /\ StagingKept]_vars

\* a commit succeeded after an earlier one failed while saving the index
C28_Witness ==
    /\ ran.op = "commit_staged_data"
    /\ ran.ret = "True"
    /\ controller.data # NoTable
    /\ controller.staged_data = NoTable
    /\ \E i \in 1..Len(processed) : ~processed[i].indexed

\* C29: a failed parse_and_stage_excel (no file path, parser error, or
\* exception) leaves staged_data, staged_metadata and data unchanged, so data
\* staged by an earlier successful parse remains committable after it.
C29_FailedParseKeepsStaged ==
    [][ran'.op = "parse_and_stage_excel" /\ ran'.ret # MsgParsed =>
          /\ ran'.ret \in {MsgNoPath, MsgParseFailed, MsgUnexpected}
          /\ StagingKept
          /\ Committable(controller) => Committable(controller')]_vars

\* a parse raised inside the parser while a table of an earlier parse was
\* staged, and that table is still staged and committable
C29_Witness ==
    /\ ran.op = "parse_and_stage_excel"
    /\ ran.ret = MsgUnexpected
    /\ controller.staged_data # NoTable
    /\ controller.staged_data.rows # <<>>
    /\ Committable(controller)

-----------------------------------------------------------------------------
(* FileService.cleanup_temp_file (tab_importer_refactored.py lines 84-126) *)

\* str.startswith
startswith(s, prefix) == Len(s) >= Len(prefix) /\ SubSeq(s, 1, Len(prefix)) = prefix

\* what one os.remove call can do: remove the file, raise PermissionError
\* (the file is held open), or raise another OSError
RemoveOutcomes == {"removed", "PermissionError", "OSError"}

\* range(3) of line 107, and the last attempt that is retried (line 112)
MaxAttempts == 3
LastRetry == 2

\* fs without the file at path
Removed(fs, path) == [q \in DOMAIN fs \ {path} |-> fs[q]]

\* the loop of lines 107-126 from attempt on; does[k] is what the k-th
\* os.remove call does.  Gives the value returned, the files left and the
\* outcomes of the calls made.
RECURSIVE remove_loop(_, _, _, _)
remove_loop(file_path, fs, does, attempt) ==
    LET made == SubSeq(does, 1, attempt + 1)
    IN  IF attempt >= MaxAttempts
        THEN [ret |-> FALSE, files |-> fs, removes |-> SubSeq(does, 1, attempt)]
        ELSE IF does[attempt + 1] = "removed"
        THEN [ret |-> TRUE, files |-> Removed(fs, file_path), removes |-> made]
        ELSE IF does[attempt + 1] = "PermissionError" /\ attempt < LastRetry
        THEN remove_loop(file_path, fs, does, attempt + 1)
        ELSE [ret |-> FALSE, files |-> fs, removes |-> made]

\* lines 97-126
cleanup_temp_file(file_path, fs, does) ==
    IF file_path = NoPath \/ ~startswith(file_path, TEMP_UPLOAD_DIR)
    THEN [ret |-> FALSE, files |-> fs, removes |-> <<>>]
    ELSE IF file_path \notin DOMAIN fs
    THEN [ret |-> TRUE, files |-> fs, removes |-> <<>>]
    ELSE remove_loop(file_path, fs, does, 0)

\* a file of a directory beside data/temp whose name begins with "temp"
SiblingFile == <<"data", "/", "temp", "_old", "/", "a.xlsx">>

\* the paths cleanup_temp_file is called with
CleanupPaths ==
    {NoPath, TempPath("a.xlsx"), TempPath("b.xlsx"), TEST_DATA_FILE, SiblingFile}

CleanupTempFile ==
    /\ \E file_path \in CleanupPaths, does \in [1..MaxAttempts -> RemoveOutcomes] :
        LET r == cleanup_temp_file(file_path, files, does)
        IN  /\ files' = r.files
            /\ ran' = Ran("cleanup_temp_file", file_path, Py(r.ret), r.removes)
    /\ UNCHANGED <<parser_vars, controller, import_state, output_container, triggered,
                   processed, writers>>

\* some of the files are on disk
InitCleanup ==
    /\ ParserIdle
    /\ controller = AppController
    /\ import_state = get_initial_import_state
    /\ output_container = Children({}, <<>>, "idle")
    /\ triggered = {}
    /\ \E present \in SUBSET (CleanupPaths \ {NoPath}) :
          files = [q \in present |-> "workbook"]
    /\ processed = <<>>
    /\ ran = Ran("__init__", NoPath, "None", <<>>)
    /\ writers = [o \in Outputs |-> {}]

SpecCleanup == InitCleanup /\ [][CleanupTempFile]_vars

\* the path names a file inside the directory TEMP_UPLOAD_DIR
UnderTempDir(path) ==
    /\ startswith(path, TEMP_UPLOAD_DIR \o <<"/">>)
    /\ ".." \notin {path[i] : i \in 1..Len(path)}

\* C23: cleanup_temp_file ends after at most 3 removal attempts, retrying
\* only after a PermissionError; it returns True exactly when the file was
\* already absent or a removal attempt succeeded; for a path that is empty
\* or not under TEMP_UPLOAD_DIR it returns False without attempting a removal.
C23_CleanupContract ==
    [][ran'.op = "cleanup_temp_file" =>
          LET path == ran'.arg
              tried == ran'.removes
          IN  /\ Len(tried) <= MaxAttempts
              /\ \A k \in 1..(Len(tried) - 1) : tried[k] = "PermissionError"
              /\ IF path = NoPath \/ ~UnderTempDir(path)
                 THEN ran'.ret = "False" /\ tried = <<>> /\ files' = files
                 ELSE ran'.ret = "True" <=>
                          \/ path \notin DOMAIN files
                          \/ tried # <<>> /\ tried[Len(tried)] = "removed"]_vars

-----------------------------------------------------------------------------
(* The import tab: register_importer_callbacks (tab_importer_refactored.py) *)

\* the callbacks as registered: the Output each declares and whether the
\* declaration carries allow_duplicate=True
Registered ==
    {[name |-> "handle_file_upload", output |-> "IMPORT_STATE.data",
      allow_duplicate |-> FALSE],
     [name |-> "handle_parse_sheet", output |-> "IMPORT_STATE.data",
      allow_duplicate |-> TRUE],
     [name |-> "handle_commit_or_discard", output |-> "IMPORT_STATE.data",
      allow_duplicate |-> TRUE],
     [name |-> "render_importer_ui", output |-> "OUTPUT_CONTAINER.children",
      allow_duplicate |-> FALSE]}

OutputOf(name) == (CHOOSE c \in Registered : c.name = name).output

\* the callback returned a value: its Output is set, and the callbacks that
\* have the Output as Input are triggered
Written(name) ==
    /\ writers' = [writers EXCEPT ![OutputOf(name)] = @ \cup {name}]
    /\ triggered' = IF OutputOf(name) = "IMPORT_STATE.data"
                    THEN triggered \cup {"render_importer_ui"}
                    ELSE triggered \ {name}

\* the callback returned dash.no_update
NoUpdate(name) ==
    /\ ran' = Ran(name, NoPath, "no_update", <<>>)
    /\ UNCHANGED <<controller, import_state, output_container, triggered, files,
                   processed, writers>>

\* what a browser uploads: a.xlsx is a workbook, b.xlsx is not
Uploads == (("a.xlsx" :> "workbook") @@ ("b.xlsx" :> "corrupt"))

\* the messages of the import state
MsgDecode == "decode failed"
MsgNoSheets == "no sheet names"

\* callback A, lines 229-294.  The trigger is the upload component with a
\* file (decoded is whether decode_upload could write it), or the test button.
\* The user acts on the page as rendered: the callbacks an earlier one
\* triggered have run (triggered = {}).
HandleFileUpload ==
    /\ triggered = {}
    /\ \E trigger \in {"upload-data", "test-import-button"},
          filename \in DOMAIN Uploads, decoded \in BOOLEAN :
        LET file_to_process == IF trigger = "upload-data" THEN TempPath(filename)
                               ELSE TEST_DATA_FILE
            written == IF trigger = "upload-data"
                       THEN (file_to_process :> Uploads[filename]) @@ files
                       ELSE files
            r == get_excel_sheet_names(controller, written, file_to_process,
                                       Basename(file_to_process))
        IN  IF trigger = "upload-data" /\ ~decoded
            THEN /\ import_state' = StageOnly("idle", MsgDecode)
                 /\ ran' = Ran("handle_file_upload", file_to_process, MsgDecode, <<>>)
                 /\ UNCHANGED <<controller, files>>
            ELSE /\ files' = written
                 /\ controller' = r.controller
                 /\ IF r.sheet_names = <<>>
                    THEN /\ import_state' = StageOnly("idle", MsgNoSheets)
                         /\ ran' = Ran("handle_file_upload", file_to_process,
                                       MsgNoSheets, <<>>)
                    ELSE /\ import_state' =
                               create_import_state("uploaded", file_to_process,
                                   Basename(file_to_process), r.sheet_names,
                                   None, FALSE, None)
                         /\ ran' = Ran("handle_file_upload", file_to_process,
                                       "uploaded", <<>>)
    /\ Written("handle_file_upload")
    /\ UNCHANGED <<parser_vars, output_container, processed>>

\* handle_parse_sheet that answers a failed parse with a fresh import state
HandleParseSheet_Fresh ==
    /\ triggered = {}
    /\ "parse-sheet-button" \in output_container.ids
    /\ \E n_clicks \in {0, 1},
          selected_sheet \in {output_container.options[i] :
                                 i \in 1..Len(output_container.options)} \cup {None} :
        \E r \in {parse_and_stage_excel(controller, files, selected_sheet)} :
            IF n_clicks = 0 \/ selected_sheet = None
            THEN NoUpdate("handle_parse_sheet")
            ELSE /\ controller' = r.controller
                 /\ import_state' =
                       IF ~r.df.present
                       THEN [StageOnly("uploaded", r.message)
                                EXCEPT !.selected_sheet = selected_sheet]
                       ELSE create_import_state("previewing",
                                import_state.current_file_path,
                                import_state.original_filename,
                                import_state.sheet_names, selected_sheet,
                                r.df.rows # <<>> /\ r.df.columns # <<>>, None)
                 /\ ran' = Ran("handle_parse_sheet", <<selected_sheet>>, r.message, <<>>)
                 /\ Written("handle_parse_sheet")
                 /\ UNCHANGED <<output_container, files, processed>>
    /\ UNCHANGED parser_vars

\* callback B, lines 299-342.  The button and the dropdown exist while the
\* container shows them; n_clicks is 0 when the callback fires for the new
\* button.
HandleParseSheet ==
    /\ triggered = {}
    /\ "parse-sheet-button" \in output_container.ids
    /\ \E n_clicks \in {0, 1},
          selected_sheet \in {output_container.options[i] :
                                 i \in 1..Len(output_container.options)} \cup {None} :
        \E r \in {parse_and_stage_excel(controller, files, selected_sheet)} :
            IF n_clicks = 0 \/ selected_sheet = None
            THEN NoUpdate("handle_parse_sheet")
            ELSE /\ controller' = r.controller
                 /\ import_state' =
                       IF ~r.df.present
                       THEN create_import_state("uploaded",
                                import_state.current_file_path,
                                import_state.original_filename,
                                import_state.sheet_names, selected_sheet,
                                FALSE, r.message)
                       ELSE create_import_state("previewing",
                                import_state.current_file_path,
                                import_state.original_filename,
                                import_state.sheet_names, selected_sheet,
                                r.df.rows # <<>> /\ r.df.columns # <<>>, None)
                 /\ ran' = Ran("handle_parse_sheet", <<selected_sheet>>, r.message, <<>>)
                 /\ Written("handle_parse_sheet")
                 /\ UNCHANGED <<output_container, files, processed>>
    /\ UNCHANGED parser_vars

\* callback C, lines 347-398.  The two buttons exist while the container
\* shows the preview.
HandleCommitOrDiscard ==
    /\ triggered = {}
    /\ "commit-button" \in output_container.ids
    /\ \E trigger \in {"commit-button", "discard-button"}, n_clicks \in {0, 1},
          save \in SaveOutcomes, does \in [1..MaxAttempts -> RemoveOutcomes] :
        \E file_path \in {import_state.current_file_path},
           c \in {commit_staged_data(controller, processed, save)},
           cleaned \in {cleanup_temp_file(import_state.current_file_path, files, does)} :
            IF n_clicks = 0
            THEN NoUpdate("handle_commit_or_discard") /\ UNCHANGED parser_vars
            ELSE IF trigger = "commit-button"
            THEN /\ Len(processed) < MaxCommits
                 /\ controller' = c.controller
                 /\ processed' = c.processed
                 /\ files' = IF c.success /\ file_path # NoPath
                             THEN cleaned.files ELSE files
                 /\ import_state' =
                       StageOnly(IF c.success THEN "committed" ELSE "previewing",
                                 IF c.success THEN None ELSE c.message)
                 /\ ran' = Ran("handle_commit_or_discard", <<"commit">>,
                               Py(c.success),
                               IF c.success /\ file_path # NoPath
                               THEN cleaned.removes ELSE <<>>)
                 /\ Written("handle_commit_or_discard")
                 /\ UNCHANGED <<parser_vars, output_container>>
            ELSE /\ controller' = discard_staged_data(controller)
                 /\ files' = IF file_path # NoPath THEN cleaned.files ELSE files
                 /\ import_state' = StageOnly("discarded", None)
                 /\ ran' = Ran("handle_commit_or_discard", <<"discard">>, "True",
                               IF file_path # NoPath THEN cleaned.removes ELSE <<>>)
                 /\ Written("handle_commit_or_discard")
                 /\ UNCHANGED <<parser_vars, output_container, processed>>

\* callback D, lines 403-532
RenderImporterUi ==
    /\ "render_importer_ui" \in triggered
    /\ output_container' =
          IF import_state.stage = "uploaded"
          THEN Children({"sheet-dropdown", "parse-sheet-button",
                         "importer-preview-container"},
                        import_state.sheet_names, "uploaded")
          ELSE IF import_state.stage = "previewing"
          THEN IF ~controller.staged_data.present
                  \/ controller.staged_data.rows = <<>>
                  \/ controller.staged_data.columns = <<>>
               THEN Children({}, <<>>, "nothing to preview")
               ELSE Children({"preview-table", "commit-button", "discard-button"},
                             <<>>, "previewing")
          ELSE Children({}, <<>>, import_state.stage)
    /\ ran' = Ran("render_importer_ui", NoPath, import_state.stage, <<>>)
    /\ Written("render_importer_ui")
    /\ UNCHANGED <<parser_vars, controller, import_state, files, processed>>

\* the page as loaded: the container is empty
InitImport ==
    /\ ParserIdle
    /\ controller = AppController
    /\ import_state = get_initial_import_state
    /\ output_container = Children({}, <<>>, "idle")
    /\ triggered = {}
    /\ files = (TEST_DATA_FILE :> "workbook")
    /\ processed = <<>>
    /\ ran = Ran("__init__", NoPath, "None", <<>>)
    /\ writers = [o \in Outputs |-> {}]

NextImport ==
    \/ HandleFileUpload
    \/ HandleParseSheet
    \/ HandleCommitOrDiscard
    \/ RenderImporterUi

SpecImport == InitImport /\ [][NextImport]_vars

\* the stage moves the flow is documented to make
DocumentedMoves ==
    {<<"idle", "uploaded">>, <<"uploaded", "previewing">>, <<"previewing", "idle">>}

\* C21: after handle_commit_or_discard processes a successful commit or a
\* discard, the stage stored in IMPORT_STATE is 'idle'; the stage only ever
\* moves idle -> uploaded -> previewing -> back to idle.
C21_BackToIdle ==
    [][/\ ran'.op = "handle_commit_or_discard" /\ ran'.ret = "True" =>
              import_state'.stage = "idle"
       /\ import_state'.stage # import_state.stage =>
              <<import_state.stage, import_state'.stage>> \in DocumentedMoves]_vars

\* C22: every Output is written by exactly one callback: no two registered
\* callbacks write the same component property, OUTPUT_CONTAINER is written
\* only by render_importer_ui, and no callback needs allow_duplicate.
C22_OneWriterPerOutput ==
    /\ \A o \in Outputs : Cardinality(writers[o]) <= 1
    /\ \A c, d \in Registered : c.output = d.output => c = d
    /\ writers["OUTPUT_CONTAINER.children"] \subseteq {"render_importer_ui"}
    /\ \A c \in Registered : ~c.allow_duplicate

\* the parse of the selected sheet failed
ParseFailed == {MsgNoPath, MsgParseFailed, MsgUnexpected}

\* C25: when parsing the selected sheet fails, handle_parse_sheet keeps the
\* import flow in stage 'uploaded' and carries current_file_path,
\* original_filename and sheet_names over unchanged from the previous
\* IMPORT_STATE, adding only selected_sheet and the error.
C25_FailedParseCarriesState ==
    [][ran'.op = "handle_parse_sheet" /\ ran'.ret \in ParseFailed =>
          /\ import_state'.stage = "uploaded"
          /\ import_state'.current_file_path = import_state.current_file_path
          /\ import_state'.original_filename = import_state.original_filename
          /\ import_state'.sheet_names = import_state.sheet_names
          /\ import_state'.selected_sheet = ran'.arg[1]
          /\ import_state'.error = ran'.ret
          /\ import_state'.preview_data_available = FALSE]_vars

\* a parse has just failed on a sheet of an uploaded workbook: the file path,
\* the file name and the sheet names of the upload are still in the store
C25_Witness ==
    /\ ran.op = "handle_parse_sheet"
    /\ ran.ret \in ParseFailed
    /\ import_state.stage = "uploaded"
    /\ import_state.current_file_path = TempPath("a.xlsx")
    /\ import_state.original_filename = "a.xlsx"
    /\ import_state.sheet_names = SheetNames
    /\ import_state.selected_sheet # None
    /\ import_state.error # None

\* C26: after any sequence of upload, parse, commit and discard callbacks,
\* whenever IMPORT_STATE.stage is 'uploaded' or 'previewing' its
\* current_file_path is non-null.
C26_FilePathWhileOpen ==
    import_state.stage \in {"uploaded", "previewing"} =>
        import_state.current_file_path # NoPath

====
